---- MODULE Spec2Model ----
(***************************************************************************)
(* csvtopg: schema inference over a stream of CSV rows (AnalyzeColumns),   *)
(* DDL rendering (CreateTable), the pgx CopyFromSource adapter             *)
(* (copyFromSource.Next / Values / Err), CopyRows, and the command's       *)
(* pipeline that runs them in sequence over one rewindable reader.         *)
(*                                                                         *)
(* A text (a Go string, a CSV field) is a sequence of one-character        *)
(* strings, so that the decoders and NormalizeIdentifier work on the       *)
(* characters as the Go code does.                                         *)
(***************************************************************************)
EXTENDS Integers, Sequences, FiniteSets, TLC

(***************************************************************************)
(* Characters                                                              *)
(***************************************************************************)
Digits == {"0", "1", "2", "3", "4", "5", "6", "7", "8", "9"}

UpperLetters == <<"A", "B", "C", "D", "E", "F", "G", "H", "I", "J", "K", "L", "M",
                  "N", "O", "P", "Q", "R", "S", "T", "U", "V", "W", "X", "Y", "Z">>

LowerLetters == <<"a", "b", "c", "d", "e", "f", "g", "h", "i", "j", "k", "l", "m",
                  "n", "o", "p", "q", "r", "s", "t", "u", "v", "w", "x", "y", "z">>

Range(f) == {f[i] : i \in DOMAIN f}

\* The class \w of Go's regexp (RE2): ASCII letters, digits and underscore.
WordChars == Digits \cup Range(UpperLetters) \cup Range(LowerLetters) \cup {"_"}

IsWordChar(c) == c \in WordChars

UpperChars == Range(UpperLetters)

\* strings.ToLower on one character.
ToLowerChar(c) ==
    IF c \in UpperChars
    THEN LowerLetters[CHOOSE i \in DOMAIN UpperLetters : UpperLetters[i] = c]
    ELSE c

(***************************************************************************)
(* NormalizeIdentifier: every maximal run of non-word characters becomes   *)
(* one underscore (regexp \W+, ReplaceAllLiteralString), then ToLower.     *)
(***************************************************************************)
RECURSIVE ReplaceNonWordRuns(_, _)
ReplaceNonWordRuns(s, inRun) ==
    IF s = <<>> THEN <<>>
    ELSE IF IsWordChar(Head(s)) THEN <<Head(s)>> \o ReplaceNonWordRuns(Tail(s), FALSE)
    ELSE IF inRun THEN ReplaceNonWordRuns(Tail(s), TRUE)
    ELSE <<"_">> \o ReplaceNonWordRuns(Tail(s), TRUE)

ToLower(s) == [i \in DOMAIN s |-> ToLowerChar(s[i])]

NormalizeIdentifier(s) == ToLower(ReplaceNonWordRuns(s, FALSE))

(***************************************************************************)
(* strconv.ParseInt(s, 10, bitSize), success or failure only: an optional  *)
(* sign, then one or more decimal digits, the value within the signed      *)
(* range of the width.  The magnitude is compared digit by digit, the      *)
(* 64-bit limits being beyond the model checker's integers.                *)
(***************************************************************************)
RECURSIVE StripLeadingZeros(_)
StripLeadingZeros(d) ==
    IF Len(d) > 1 /\ Head(d) = "0" THEN StripLeadingZeros(Tail(d)) ELSE d

DigitOrder == <<"0", "1", "2", "3", "4", "5", "6", "7", "8", "9">>

DigitVal(c) == (CHOOSE i \in DOMAIN DigitOrder : DigitOrder[i] = c) - 1

\* a <= b for two digit sequences of the same length.
RECURSIVE DigitsLeqSameLen(_, _)
DigitsLeqSameLen(a, b) ==
    IF a = <<>> THEN TRUE
    ELSE IF DigitVal(Head(a)) < DigitVal(Head(b)) THEN TRUE
    ELSE IF DigitVal(Head(a)) > DigitVal(Head(b)) THEN FALSE
    ELSE DigitsLeqSameLen(Tail(a), Tail(b))

\* a <= b for two digit sequences read as decimal numbers.
DigitsLeq(a, b) ==
    LET x == StripLeadingZeros(a)
        y == StripLeadingZeros(b)
    IN  IF Len(x) # Len(y) THEN Len(x) < Len(y) ELSE DigitsLeqSameLen(x, y)

MaxInt32Digits == <<"2", "1", "4", "7", "4", "8", "3", "6", "4", "7">>
MinInt32Digits == <<"2", "1", "4", "7", "4", "8", "3", "6", "4", "8">>
MaxInt64Digits == <<"9", "2", "2", "3", "3", "7", "2", "0", "3", "6",
                    "8", "5", "4", "7", "7", "5", "8", "0", "7">>
MinInt64Digits == <<"9", "2", "2", "3", "3", "7", "2", "0", "3", "6",
                    "8", "5", "4", "7", "7", "5", "8", "0", "8">>

HasSign(s) == s # <<>> /\ Head(s) \in {"+", "-"}

Unsigned(s) == IF HasSign(s) THEN Tail(s) ELSE s

AllDigits(d) == d # <<>> /\ \A i \in DOMAIN d : d[i] \in Digits

ParseIntOk(s, maxDigits, minDigits) ==
    /\ AllDigits(Unsigned(s))
    /\ IF s # <<>> /\ Head(s) = "-"
       THEN DigitsLeq(Unsigned(s), minDigits)
       ELSE DigitsLeq(Unsigned(s), maxDigits)

ParseInt32Ok(s) == ParseIntOk(s, MaxInt32Digits, MinInt32Digits)

ParseInt64Ok(s) == ParseIntOk(s, MaxInt64Digits, MinInt64Digits)

\* The integer a successful ParseInt yields, as canonical digits with a
\* leading minus sign when negative.
IntValue(s) ==
    LET d == StripLeadingZeros(Unsigned(s))
    IN  IF Head(s) = "-" /\ d # <<"0">> THEN <<"-">> \o d ELSE d

(***************************************************************************)
(* decimal.NewFromString (shopspring), success or failure only: an         *)
(* optional exponent after the first e or E that must parse as a 32-bit    *)
(* integer, at most one decimal point, and the remaining characters an     *)
(* optionally signed, non-empty run of digits.                             *)
(***************************************************************************)
FirstIndexIn(s, cs) ==
    IF \E i \in DOMAIN s : s[i] \in cs
    THEN CHOOSE i \in DOMAIN s : s[i] \in cs /\ \A j \in 1..(i - 1) : s[j] \notin cs
    ELSE 0

RECURSIVE Without(_, _)
Without(s, c) ==
    IF s = <<>> THEN <<>>
    ELSE IF Head(s) = c THEN Without(Tail(s), c)
    ELSE <<Head(s)>> \o Without(Tail(s), c)

NewFromStringOk(s) ==
    LET eIndex   == FirstIndexIn(s, {"e", "E"})
        mantissa == IF eIndex = 0 THEN s ELSE SubSeq(s, 1, eIndex - 1)
        expOk    == eIndex = 0 \/ ParseInt32Ok(SubSeq(s, eIndex + 1, Len(s)))
        points   == Cardinality({i \in DOMAIN mantissa : mantissa[i] = "."})
    IN  /\ expOk
        /\ points <= 1
        /\ AllDigits(Unsigned(Without(mantissa, ".")))

(***************************************************************************)
(* pgtype.Date.DecodeText, success or failure only: "infinity",            *)
(* "-infinity", or a date in the layout 2006-01-02 (optionally followed by *)
(* " BC", which is trimmed before parsing).                                *)
(***************************************************************************)
InfinityText == <<"i", "n", "f", "i", "n", "i", "t", "y">>

TwoDigits(s, i) == DigitVal(s[i]) * 10 + DigitVal(s[i + 1])

FourDigits(s, i) == TwoDigits(s, i) * 100 + TwoDigits(s, i + 2)

IsLeapYear(y) == y % 4 = 0 /\ (y % 100 # 0 \/ y % 400 = 0)

DaysIn(m, y) ==
    IF m = 2 THEN (IF IsLeapYear(y) THEN 29 ELSE 28)
    ELSE IF m \in {4, 6, 9, 11} THEN 30 ELSE 31

ParseDateOk(s) ==
    /\ Len(s) = 10
    /\ s[5] = "-" /\ s[8] = "-"
    /\ \A i \in {1, 2, 3, 4, 6, 7, 9, 10} : s[i] \in Digits
    /\ TwoDigits(s, 6) \in 1..12
    /\ TwoDigits(s, 9) \in 1..DaysIn(TwoDigits(s, 6), FourDigits(s, 1))

RECURSIVE TrimRight(_, _)
TrimRight(s, cs) ==
    IF s # <<>> /\ s[Len(s)] \in cs THEN TrimRight(SubSeq(s, 1, Len(s) - 1), cs) ELSE s

HasSuffixBC(s) == Len(s) >= 3 /\ SubSeq(s, Len(s) - 2, Len(s)) = <<" ", "B", "C">>

DateTextOk(s) ==
    \/ s = InfinityText
    \/ s = <<"-">> \o InfinityText
    \/ IF HasSuffixBC(s) THEN ParseDateOk(TrimRight(s, {" ", "B", "C"})) ELSE ParseDateOk(s)

(***************************************************************************)
(* The transcoders (pgtype.Int4, Int8, shopspring Numeric, pgtype.Date,    *)
(* Bool, Text).  Each transcoder object holds the value of its last        *)
(* successful DecodeText; a failed DecodeText leaves the object untouched. *)
(***************************************************************************)
Int4T == "Int4"
Int8T == "Int8"
NumericT == "Numeric"
DateT == "Date"
BoolT == "Bool"
TextT == "Text"

\* The Go zero value of a pgtype value (Status Undefined).
ZeroValue == [status |-> "undefined", val |-> <<>>]

NullValue == [status |-> "null", val |-> <<>>]

Present(v) == [status |-> "present", val |-> v]

NewTranscoder(t) == [type |-> t, value |-> ZeroValue]

\* The nil transcoder of a zero Column.
NilTranscoder == [type |-> "nil", value |-> ZeroValue]

\* A []byte argument of DecodeText: nil, or the bytes of a text.
NilBytes == [isNil |-> TRUE, text |-> <<>>]

Bytes(s) == [isNil |-> FALSE, text |-> s]

\* Whether DecodeText of type t returns a nil error on the non-nil bytes s.
AcceptsText(t, s) ==
    CASE t = Int4T    -> ParseInt32Ok(s)
      [] t = Int8T    -> ParseInt64Ok(s)
      [] t = NumericT -> NewFromStringOk(s)
      [] t = DateT    -> DateTextOk(s)
      [] t = BoolT    -> Len(s) = 1
      [] t = TextT    -> TRUE

\* The value a successful DecodeText of type t stores for the bytes s.
DecodedValue(t, s) ==
    CASE t \in {Int4T, Int8T} -> Present(IntValue(s))
      [] t = NumericT -> Present(IF s # <<>> /\ Head(s) = "+" THEN Tail(s) ELSE s)
      [] t = DateT    -> Present(s)
      [] t = BoolT    -> Present(IF s[1] = "t" THEN <<"t", "r", "u", "e">>
                                                ELSE <<"f", "a", "l", "s", "e">>)
      [] t = TextT    -> Present(s)

\* tr.DecodeText(ci, src): the error flag and the transcoder afterwards.
DecodeText(tr, src) ==
    IF src.isNil THEN [ok |-> TRUE, tr |-> [tr EXCEPT !.value = NullValue]]
    ELSE IF AcceptsText(tr.type, src.text)
         THEN [ok |-> TRUE, tr |-> [tr EXCEPT !.value = DecodedValue(tr.type, src.text)]]
         ELSE [ok |-> FALSE, tr |-> tr]

(***************************************************************************)
(* columnAnalyzer                                                          *)
(***************************************************************************)
CandidateTypes == <<Int4T, Int8T, NumericT, DateT, BoolT>>

newColumnAnalyzer ==
    [acceptableTypes |-> [i \in DOMAIN CandidateTypes |-> NewTranscoder(CandidateTypes[i])],
     nullsFound      |-> 0,
     nonNullsFound   |-> 0]

\* A variant of FilterAcceptable that tries every candidate again at each
\* value, whatever has been eliminated before.
FilterAcceptableFromAll(ts, s) ==
    LET Keep(t) == IF AcceptsText(t, s)
                   THEN <<[type |-> t, value |-> DecodedValue(t, s)]>>
                   ELSE <<>>
    IN  Keep(Int4T) \o Keep(Int8T) \o Keep(NumericT) \o Keep(DateT) \o Keep(BoolT)

\* The loop of analyzeValue: the transcoders of ts that decode s, in order.
RECURSIVE FilterAcceptable(_, _)
FilterAcceptable(ts, s) ==
    IF ts = <<>> THEN <<>>
    ELSE LET d == DecodeText(Head(ts), Bytes(s))
         IN  (IF d.ok THEN <<d.tr>> ELSE <<>>) \o FilterAcceptable(Tail(ts), s)

analyzeValue(ca, s) ==
    IF s = <<>>
    THEN [ca EXCEPT !.nullsFound = @ + 1]
    ELSE [ca EXCEPT !.nonNullsFound = @ + 1,
                    !.acceptableTypes = FilterAcceptable(@, s)]

IntegerName == <<"i", "n", "t", "e", "g", "e", "r">>
BigintName == <<"b", "i", "g", "i", "n", "t">>
NumericName == <<"n", "u", "m", "e", "r", "i", "c">>
DateName == <<"d", "a", "t", "e">>
BoolName == <<"b", "o", "o", "l">>
TextName == <<"t", "e", "x", "t">>

\* The type switch of result.
DataTypeOf(tr) ==
    CASE tr.type = Int4T    -> IntegerName
      [] tr.type = Int8T    -> BigintName
      [] tr.type = NumericT -> NumericName
      [] tr.type = DateT    -> DateName
      [] tr.type = BoolT    -> BoolName
      [] tr.type = TextT    -> TextName

\* A variant of resultTranscoder that takes the last surviving candidate.
resultTranscoderLast(ca) ==
    IF Len(ca.acceptableTypes) = 0 \/ ca.nonNullsFound = 0
    THEN NewTranscoder(TextT)
    ELSE ca.acceptableTypes[Len(ca.acceptableTypes)]

\* The transcoder result chooses.
resultTranscoder(ca) ==
    IF Len(ca.acceptableTypes) = 0 \/ ca.nonNullsFound = 0
    THEN NewTranscoder(TextT)
    ELSE ca.acceptableTypes[1]

\* A variant of resultNotNull that reads the other counter.
resultNotNullByNonNulls(ca) == ca.nonNullsFound > 0

\* A variant of resultNotNull that wants a value to have been seen.
resultNotNullWhenSeen(ca) == ca.nullsFound = 0 /\ ca.nonNullsFound > 0

resultNotNull(ca) == ca.nullsFound = 0

result(ca) ==
    [dataType   |-> DataTypeOf(resultTranscoder(ca)),
     transcoder |-> resultTranscoder(ca),
     notNull    |-> resultNotNull(ca)]

(***************************************************************************)
(* Errors and the results of read()                                        *)
(***************************************************************************)
NoErr == [kind |-> "nil", col |-> 0, text |-> <<>>]

\* io.EOF itself.
EOF == [kind |-> "EOF", col |-> 0, text |-> <<>>]

\* An error that wraps io.EOF: errors.Is(err, io.EOF) holds, err == io.EOF does not.
WrappedEOF == [kind |-> "wrappedEOF", col |-> 0, text |-> <<>>]

\* Any other failure of the row source.
ReadFailure == [kind |-> "read", col |-> 0, text |-> <<>>]

\* The error DecodeText returns for column position col (1-based) and text s.
DecodeErr(col, s) == [kind |-> "decode", col |-> col, text |-> s]

ErrorsIsEOF(e) == e.kind \in {"EOF", "wrappedEOF"}

RowResult(fields) == [fields |-> fields, err |-> NoErr]

ErrResult(e) == [fields |-> <<>>, err |-> e]

(***************************************************************************)
(* AnalyzeColumns, the parts its steps are built from                      *)
(***************************************************************************)
\* A variant of NamedColumns that names the columns from the last field back.
NamedColumnsReversed(headerFields) ==
    [i \in DOMAIN headerFields |->
        [Name       |-> NormalizeIdentifier(headerFields[Len(headerFields) + 1 - i]),
         DataType   |-> <<>>,
         NotNull    |-> FALSE,
         transcoder |-> NilTranscoder]]

\* columns after the header read: the names set, everything else zero.
NamedColumns(headerFields) ==
    [i \in DOMAIN headerFields |->
        [Name       |-> NormalizeIdentifier(headerFields[i]),
         DataType   |-> <<>>,
         NotNull    |-> FALSE,
         transcoder |-> NilTranscoder]]

NewAnalyzers(headerFields) == [i \in DOMAIN headerFields |-> newColumnAnalyzer]

\* The closing loop of AnalyzeColumns: each column takes its analyzer's result.
ResolvedColumns(cols, cas) ==
    [i \in DOMAIN cols |->
        [cols[i] EXCEPT !.DataType   = result(cas[i]).dataType,
                        !.transcoder = result(cas[i]).transcoder,
                        !.NotNull    = result(cas[i]).notNull]]

\* A variant of LineError that reports the line before.
LineErrorLineBefore(line, cause) == [line |-> line - 1, cause |-> cause]

\* fmt.Errorf("line %d: %w", lineNumber, err)
LineError(line, cause) == [line |-> line, cause |-> cause]

NoLineError == [line |-> 0, cause |-> NoErr]

\* Whether a failed data-row read ends the scan successfully.
EndsScan(e) == ErrorsIsEOF(e)

(***************************************************************************)
(* CreateTable: the statement text                                         *)
(***************************************************************************)
CreateTablePrefix == <<"c", "r", "e", "a", "t", "e", " ", "t", "a", "b", "l", "e", " ">>

NotNullSuffix == <<" ", "n", "o", "t", " ", "n", "u", "l", "l">>

ColumnText(c) ==
    c.Name \o <<" ">> \o c.DataType \o (IF c.NotNull THEN NotNullSuffix ELSE <<>>)

RECURSIVE ColumnListFrom(_, _)
ColumnListFrom(cols, i) ==
    IF i > Len(cols) THEN <<>>
    ELSE (IF i > 1 THEN <<",", " ">> ELSE <<>>) \o ColumnText(cols[i])
         \o ColumnListFrom(cols, i + 1)

ColumnList(cols) == ColumnListFrom(cols, 1)

CreateTableSQL(tableName, cols) ==
    CreateTablePrefix \o tableName \o <<" ", "(">> \o ColumnList(cols) \o <<")", ";">>

(***************************************************************************)
(* copyFromSource                                                          *)
(***************************************************************************)
\* A variant of Next that records io.EOF like any other error.
copyFromSourceNextRecordsEOF(raw, err, r) ==
    IF r.err # NoErr
    THEN [rawRow |-> raw, err |-> r.err, ok |-> FALSE]
    ELSE [rawRow |-> r.fields, err |-> err, ok |-> TRUE]

\* A variant of Next that lets go of the buffered row when the read fails.
copyFromSourceNextDropsRow(raw, err, r) ==
    IF r.err # NoErr
    THEN [rawRow |-> <<>>,
          err    |-> IF r.err # EOF THEN r.err ELSE err,
          ok     |-> FALSE]
    ELSE [rawRow |-> r.fields, err |-> err, ok |-> TRUE]

\* Next, given what readFunc returned: the adapter's fields afterwards and
\* the boolean returned.
copyFromSourceNext(raw, err, r) ==
    IF r.err # NoErr
    THEN [rawRow |-> raw,
          err    |-> IF r.err # EOF THEN r.err ELSE err,
          ok     |-> FALSE]
    ELSE [rawRow |-> r.fields, err |-> err, ok |-> TRUE]

\* A variant of FieldBytes that hands an empty field over as present bytes.
FieldBytesNeverNil(s) == Bytes(s)

\* The []byte Values hands to DecodeText for the field s.
FieldBytes(s) == IF Len(s) > 0 THEN Bytes(s) ELSE NilBytes

\* A variant of ValuesFrom that decodes the remaining fields after a failure
\* and returns the first error.
RECURSIVE ValuesFromKeepsGoing(_, _, _)
ValuesFromKeepsGoing(cols, raw, i) ==
    IF i > Len(raw)
    THEN [columns |-> cols, err |-> NoErr, panic |-> FALSE, calls |-> i - 1]
    ELSE IF i > Len(cols)
    THEN [columns |-> cols, err |-> NoErr, panic |-> TRUE, calls |-> i - 1]
    ELSE LET d == DecodeText(cols[i].transcoder, IF Len(raw[i]) > 0 THEN Bytes(raw[i]) ELSE NilBytes)
             rest == ValuesFromKeepsGoing([cols EXCEPT ![i].transcoder = d.tr], raw, i + 1)
         IN  IF ~d.ok THEN [rest EXCEPT !.err = DecodeErr(i, raw[i])] ELSE rest

\* The loop of Values from field i on: the columns (their transcoders) afterwards,
\* the error returned, whether the loop ran off the end of columns, and the
\* number of DecodeText calls made.
RECURSIVE ValuesFrom(_, _, _)
ValuesFrom(cols, raw, i) ==
    IF i > Len(raw)
    THEN [columns |-> cols, err |-> NoErr, panic |-> FALSE, calls |-> i - 1]
    ELSE IF i > Len(cols)
    THEN [columns |-> cols, err |-> NoErr, panic |-> TRUE, calls |-> i - 1]
    ELSE LET d == DecodeText(cols[i].transcoder, FieldBytes(raw[i]))
         IN  IF ~d.ok
             THEN [columns |-> cols, err |-> DecodeErr(i, raw[i]), panic |-> FALSE,
                   calls |-> i]
             ELSE ValuesFrom([cols EXCEPT ![i].transcoder = d.tr], raw, i + 1)

\* cfs.values: the transcoders of the columns, in column order.
ValuesSlice(cols) == [i \in DOMAIN cols |-> cols[i].transcoder.value]

\* A variant of Values that sets cfs.err to what the call returns, an error
\* or nil.
copyFromSourceValuesResetsErr(cols, raw, err) ==
    LET v == ValuesFrom(cols, raw, 1)
    IN  [columns |-> v.columns,
         err     |-> v.err,
         values  |-> IF v.err # NoErr THEN <<>> ELSE ValuesSlice(v.columns),
         retErr  |-> v.err,
         panic   |-> v.panic,
         calls   |-> v.calls]

\* Values: the columns and cfs.err afterwards, the ([]interface{}, error)
\* returned (values is <<>> for nil), and whether the call panicked.
copyFromSourceValues(cols, raw, err) ==
    LET v == ValuesFrom(cols, raw, 1)
    IN  [columns |-> v.columns,
         err     |-> IF v.err # NoErr THEN v.err ELSE err,
         values  |-> IF v.err # NoErr THEN <<>> ELSE ValuesSlice(v.columns),
         retErr  |-> v.err,
         panic   |-> v.panic,
         calls   |-> v.calls]

\* CopyRows: the column names handed to CopyFrom.
CopyColumnNames(cols) == [i \in DOMAIN cols |-> cols[i].Name]

(***************************************************************************)
(* The row sources.  read is a parameter of AnalyzeColumns and CopyRows:   *)
(* either an arbitrary callback, which may return any row or error at each *)
(* call, or (as the command passes it) csv.Reader.Read over one file, read *)
(* again from its start after the rewind.                                  *)
(***************************************************************************)
MaxRows == 2

TOne == <<"1">>
TBig == <<"3", "0", "0", "0", "0", "0", "0", "0", "0", "0">>
TDecimal == <<"1", ".", "5">>
TDate == <<"2", "0", "2", "0", "-", "0", "2", "-", "2", "9">>
TTrue == <<"t">>
TWord == <<"a", "b", "c">>

FirstFieldTexts == {<<>>, TOne, TBig, TDecimal, TDate, TTrue, TWord}

\* The texts of the rows of two fields.
PairFirstTexts == {<<>>, TOne, TWord}

SecondFieldTexts == {<<>>, TOne, TWord}

HId == <<"I", "d">>
HFirstName == <<"F", "i", "r", "s", "t", " ", "-", "N", "a", "m", "e">>

HeaderRows == {<<HId>>, <<HId, HFirstName>>}

\* The rows an arbitrary callback returns to AnalyzeColumns.
DataRows ==
    {<<>>} \cup {<<a>> : a \in FirstFieldTexts}
           \cup {<<a, b>> : a \in PairFirstTexts, b \in SecondFieldTexts}
           \cup {<<TOne, TWord, TOne>>}

\* The rows an arbitrary callback returns to the adapter in the load pass.
LoadRows ==
    {<<a>> : a \in {<<>>, TOne, TWord}}
           \cup {<<TOne, <<>>>>, <<TOne, TWord>>, <<TWord, <<>>>>}
           \cup {<<TOne, TWord, TOne>>}

ReadErrors == {EOF, WrappedEOF, ReadFailure}

AnySource == [any |-> TRUE, records |-> <<>>]

FileSource(records) == [any |-> FALSE, records |-> records]

\* csv.Reader.Read, call number n + 1 on a reader over the records of a file:
\* io.EOF past the last record; a record whose field count differs from the
\* first record's comes with ErrFieldCount (FieldsPerRecord is 0).
CsvRead(records, n) ==
    IF n >= Len(records) THEN ErrResult(EOF)
    ELSE IF Len(records[n + 1]) # Len(records[1])
    THEN [fields |-> records[n + 1], err |-> ReadFailure]
    ELSE RowResult(records[n + 1])

\* The files of the file-backed runs.
Tid == <<"i", "d">>
Tname == <<"n", "a", "m", "e">>
Tprice == <<"p", "r", "i", "c", "e">>

ScenarioFile == <<<<Tid, Tname>>, <<<<"1">>, <<"a">>>>, <<<<"2">>, <<"b">>>>, <<<<>>, <<"c">>>>>>

HeaderOnlyFile == <<<<Tid, Tname>>>>

DecimalFile == <<<<Tprice>>, <<TDecimal>>, <<<<"2">>>>, <<<<"3">>>>>>

EmptyFile == <<>>

WordFile == <<<<Tid, Tname>>, <<TBig, TWord>>, <<TOne, <<>>>>>>

DateFile == <<<<Tname, Tid>>, <<TDate, TTrue>>, <<TDate, TOne>>>>

ShortRowFile == <<<<Tid, Tname>>, <<TOne, TWord>>, <<TOne>>, <<TOne, TWord>>>>

LongRowFile == <<<<Tid>>, <<TOne>>, <<TOne, TWord>>>>

Files == {ScenarioFile, HeaderOnlyFile, DecimalFile, EmptyFile, WordFile, DateFile,
          ShortRowFile, LongRowFile}

TableName == <<"t">>

(***************************************************************************)
(* The command's arguments and the table name it computes                  *)
(***************************************************************************)
StdinMarker == <<"-">>

StdinName == <<"s", "t", "d", "i", "n">>

\* A variant of computeTableName that normalizes a given table name as well.
computeTableNameNormalizesFlag(tablename, filename) ==
    IF tablename # <<>> THEN NormalizeIdentifier(tablename)
    ELSE IF filename = StdinMarker THEN StdinName
    ELSE NormalizeIdentifier(filename)

computeTableName(tablename, filename) ==
    IF tablename # <<>> THEN tablename
    ELSE IF filename = StdinMarker THEN StdinName
    ELSE NormalizeIdentifier(filename)

ScenarioFileName == <<"f", "o", "o", ".", "c", "s", "v">>

\* The --table flags of the runs that vary the arguments: not given, or given.
TableFlags == {<<>>, TableName, <<"M", "y", " ", "T">>}

\* The CSVFILE arguments of the runs that vary the arguments.
FileNames == {StdinMarker, ScenarioFileName, <<"M", "y", " ", "D", "a", "t", "a", "-", "-", "2", ".", "C", "S", "V">>, <<"d", "a", "t", "a", "/", "F", "o", "o", "_", "1", ".", "c", "s", "v">>, <<"a", "_", "_", "b">>, <<".", ".", ".">>}

VARIABLES
    feed,            \* the row source handed to AnalyzeColumns and CopyRows
    pos,             \* read() calls made on the source since it was opened or rewound
    lastRead,        \* what the last read() call returned (history)
    pc,              \* where the run is
    lineNumber,      \* lineNumber of AnalyzeColumns / CopyRows
    headerRow,       \* headerRow of AnalyzeColumns
    columns,         \* the []Column being built, returned, and then loaded with
    columnAnalyzers, \* columnAnalyzers of AnalyzeColumns
    row,             \* the data row AnalyzeColumns is feeding to the analyzers
    idx,             \* the position in row the loop of AnalyzeColumns is at (1-based)
    observed,        \* per column, the texts given to its analyzer, in order (history)
    aerr,            \* the error AnalyzeColumns or CopyRows returned
    ddl,             \* the statement CreateTable executed
    columnNames,     \* the column names CopyRows handed to CopyFrom
    rawRow,          \* cfs.rawRow
    cfsErr,          \* cfs.err
    ret,             \* what the adapter's last call returned
    table,           \* the --table flag of the command ("" when not given)
    csvFilename,     \* the CSVFILE argument of the command
    tableName,       \* tableName of Run, once computed
    steps,           \* the steps of Run that have succeeded, in order (history)
    rowCount,        \* the row count CopyRows returned
    nextCalls,       \* the calls of Next made on the adapter (history)
    served,          \* per read() of the load pass, whether it returned a row (history)
    delivered        \* the numbers of the reads whose row Next buffered (history)

\* The arguments of the command: no step changes them.
args == <<table, csvFilename>>

vars == <<feed, pos, lastRead, pc, lineNumber, headerRow, columns, columnAnalyzers, row,
          idx, observed, aerr, ddl, columnNames, rawRow, cfsErr, ret, table, csvFilename,
          tableName, steps, rowCount, nextCalls, served, delivered>>

\* The history of the load pass.
loadLog == <<served, delivered>>

\* ret before any call; calls is the number of DecodeText calls a Values call made.
NoReturn == [op |-> "none", ok |-> FALSE, values |-> <<>>, err |-> NoErr, calls |-> 0]

\* The results the next call of read() may have.
ReadResults ==
    IF feed.any
    THEN IF pos = 0 THEN {RowResult(h) : h \in HeaderRows} \cup {ErrResult(e) : e \in ReadErrors}
         ELSE IF pos <= MaxRows
         THEN {RowResult(d) : d \in (IF pc = "loading" THEN LoadRows ELSE DataRows)}
              \cup {ErrResult(e) : e \in ReadErrors}
         ELSE {ErrResult(e) : e \in ReadErrors}
    ELSE {CsvRead(feed.records, pos)}

\* The most read() calls the model lets a pass make on the source.
ReadLimit == IF feed.any THEN MaxRows + 2 ELSE Len(feed.records) + 1

InitCommon ==
    /\ pos = 0
    /\ lastRead = RowResult(<<>>)
    /\ pc = "start"
    /\ lineNumber = 0
    /\ headerRow = <<>>
    /\ columns = <<>>
    /\ columnAnalyzers = <<>>
    /\ row = <<>>
    /\ idx = 0
    /\ observed = <<>>
    /\ aerr = NoLineError
    /\ ddl = <<>>
    /\ columnNames = <<>>
    /\ rawRow = <<>>
    /\ cfsErr = NoErr
    /\ ret = NoReturn
    /\ tableName = <<>>
    /\ steps = <<>>
    /\ rowCount = 0
    /\ nextCalls = 0
    /\ served = <<>>
    /\ delivered = <<>>

\* The command run with --table t on the file ScenarioFileName.
InitArgs == table = TableName /\ csvFilename = ScenarioFileName

Init == feed = AnySource /\ InitArgs /\ InitCommon

InitFile == feed \in {FileSource(f) : f \in Files} /\ InitArgs /\ InitCommon

(***************************************************************************)
(* Run: every step that fails prints its message and exits                 *)
(***************************************************************************)
\* A variant of ExitOnError that goes on to the next step after a failure.
ExitOnErrorContinues(ok, next, failed) == next

\* if err != nil { ...; os.Exit(1) }: where Run is after a step.
ExitOnError(ok, next, failed) == IF ok THEN next ELSE failed

\* The history of the steps that returned no error.
Succeeded(ok, step) == IF ok THEN Append(steps, step) ELSE steps

\* An error of the database connection (Begin, Exec, CopyFrom, Commit).
ExecFailure == [kind |-> "exec", col |-> 0, text |-> <<>>]

\* An error returned as it is, with no line number put before it.
PlainError(e) == [line |-> 0, cause |-> e]

(***************************************************************************)
(* AnalyzeColumns                                                          *)
(***************************************************************************)
\* lineNumber := 1; headerRow, err := read(); the columns and analyzers made.
AnalyzeHeader ==
    /\ pc = "start"
    /\ \E r \in ReadResults :
        /\ pos' = pos + 1
        /\ lastRead' = r
        /\ lineNumber' = 1
        /\ IF r.err # NoErr
           THEN /\ pc' = "analyzeFailed"
                /\ aerr' = LineError(1, r.err)
                /\ UNCHANGED <<headerRow, columns, columnAnalyzers, observed>>
           ELSE /\ pc' = "scan"
                /\ headerRow' = r.fields
                /\ columns' = NamedColumns(r.fields)
                /\ columnAnalyzers' = NewAnalyzers(r.fields)
                /\ observed' = [i \in DOMAIN r.fields |-> <<>>]
                /\ aerr' = aerr
    /\ UNCHANGED <<feed, row, idx, ddl, columnNames, rawRow, cfsErr, ret, args, tableName,
                   steps, rowCount, nextCalls, loadLog>>

\* One turn of the loop up to the fields: lineNumber += 1; row, err := read().
\* An end of data ends the scan: the results are taken and the columns returned.
AnalyzeRead ==
    /\ pc = "scan"
    /\ \E r \in ReadResults :
        /\ pos' = pos + 1
        /\ lastRead' = r
        /\ lineNumber' = lineNumber + 1
        /\ IF r.err # NoErr
           THEN IF EndsScan(r.err)
                THEN /\ pc' = "analyzed"
                     /\ columns' = ResolvedColumns(columns, columnAnalyzers)
                     /\ aerr' = NoLineError
                     /\ steps' = Succeeded(TRUE, "analyze")
                     /\ UNCHANGED <<row, idx>>
                ELSE /\ pc' = "analyzeFailed"
                     /\ columns' = <<>>
                     /\ aerr' = LineError(lineNumber + 1, r.err)
                     /\ UNCHANGED <<row, idx, steps>>
           ELSE /\ pc' = IF r.fields = <<>> THEN "scan" ELSE "fields"
                /\ row' = r.fields
                /\ idx' = 1
                /\ UNCHANGED <<columns, aerr, steps>>
    /\ UNCHANGED <<feed, headerRow, columnAnalyzers, observed, ddl, columnNames, rawRow,
                   cfsErr, ret, args, tableName, rowCount, nextCalls, loadLog>>

\* A variant of FeedField in which the columns share one analysis: the value
\* goes to every analyzer.
FeedFieldEveryColumn(cas, i, s) == [j \in DOMAIN cas |-> analyzeValue(cas[j], s)]

\* columnAnalyzers[i].analyzeValue(row[i]): the analyzers afterwards.
FeedField(cas, i, s) == [cas EXCEPT ![i] = analyzeValue(@, s)]

\* columnAnalyzers[i].analyzeValue(row[i]) for the next i of the row; an i past
\* the analyzers is an index out of range, and the run panics.
AnalyzeField ==
    /\ pc = "fields"
    /\ IF idx > Len(columnAnalyzers)
       THEN /\ pc' = "analyzePanic"
            /\ UNCHANGED <<columnAnalyzers, observed, idx>>
       ELSE /\ columnAnalyzers' = FeedField(columnAnalyzers, idx, row[idx])
            /\ observed' = [observed EXCEPT ![idx] = Append(@, row[idx])]
            /\ idx' = idx + 1
            /\ pc' = IF idx = Len(row) THEN "scan" ELSE "fields"
    /\ UNCHANGED <<feed, pos, lastRead, lineNumber, headerRow, columns, row, aerr, ddl,
                   columnNames, rawRow, cfsErr, ret, args, tableName, steps, rowCount,
                   nextCalls, loadLog>>

(***************************************************************************)
(* The command after AnalyzeColumns: Begin, the optional drop, CreateTable, *)
(* the rewind, CopyRows, Commit                                            *)
(***************************************************************************)
\* conn.Begin, which may fail, and then computeTableName.  The locals of the
\* finished AnalyzeColumns call are gone.
Begin ==
    /\ pc = "analyzed"
    /\ \E ok \in BOOLEAN :
        /\ pc' = ExitOnError(ok, "begun", "beginFailed")
        /\ steps' = Succeeded(ok, "begin")
        /\ tableName' = IF ok THEN computeTableName(table, csvFilename) ELSE tableName
    /\ columnAnalyzers' = <<>>
    /\ observed' = <<>>
    /\ row' = <<>>
    /\ idx' = 0
    /\ UNCHANGED <<feed, pos, lastRead, lineNumber, headerRow, columns, aerr, ddl,
                   columnNames, rawRow, cfsErr, ret, args, rowCount, nextCalls, loadLog>>

\* if dropTable { tx.Exec("drop table if exists ...") }: the flag is read here
\* and nowhere else; the Exec may fail.  The drop is not a step every run
\* takes, and the history of steps does not record it.
DropTable ==
    /\ pc = "begun"
    /\ \E dropTable \in BOOLEAN, ok \in BOOLEAN :
        pc' = IF dropTable THEN ExitOnError(ok, "dropChecked", "dropFailed")
                           ELSE "dropChecked"
    /\ UNCHANGED <<feed, pos, lastRead, lineNumber, headerRow, columns, columnAnalyzers,
                   row, idx, observed, aerr, ddl, columnNames, rawRow, cfsErr, ret, args,
                   tableName, steps, rowCount, nextCalls, loadLog>>

\* CreateTable builds the statement and executes it; tx.Exec may fail.
CreateTable ==
    /\ pc = "dropChecked"
    /\ ddl' = CreateTableSQL(tableName, columns)
    /\ \E ok \in BOOLEAN :
        /\ pc' = ExitOnError(ok, "created", "createFailed")
        /\ steps' = Succeeded(ok, "create")
    /\ UNCHANGED <<feed, pos, lastRead, lineNumber, headerRow, columns, columnAnalyzers,
                   row, idx, observed, aerr, columnNames, rawRow, cfsErr, ret, args,
                   tableName, rowCount, nextCalls, loadLog>>

\* reader.Seek(0, io.SeekStart) and a new csv.Reader; Seek may fail.
Rewind ==
    /\ pc = "created"
    /\ \E ok \in BOOLEAN :
        /\ pc' = ExitOnError(ok, "rewound", "rewindFailed")
        /\ steps' = Succeeded(ok, "rewind")
        /\ pos' = IF ok THEN 0 ELSE pos
    /\ UNCHANGED <<feed, lastRead, lineNumber, headerRow, columns, columnAnalyzers, row,
                   idx, observed, aerr, ddl, columnNames, rawRow, cfsErr, ret, args,
                   tableName, rowCount, nextCalls, loadLog>>

\* A variant of NewAdapter in which the row read is not dropped: the adapter
\* starts with it buffered.
NewAdapterHoldsHeader(r) == [rawRow |-> r.fields, err |-> NoErr]

\* cfs := &copyFromSource{...}: the adapter's rawRow and err as CopyRows makes
\* it after the read r of the header, whose row is dropped.
NewAdapter(r) == [rawRow |-> <<>>, err |-> NoErr]

\* CopyRows up to the call of CopyFrom: the header is read and dropped, the
\* adapter made.  A failed header read returns 0 and the line error.
CopyRowsHeader ==
    /\ pc = "rewound"
    /\ \E r \in ReadResults :
        /\ pos' = pos + 1
        /\ lastRead' = r
        /\ lineNumber' = 1
        /\ pc' = ExitOnError(r.err = NoErr, "loading", "copyFailed")
        /\ IF r.err # NoErr
           THEN aerr' = LineError(1, r.err) /\ columnNames' = <<>>
           ELSE aerr' = aerr /\ columnNames' = CopyColumnNames(columns)
        /\ rawRow' = NewAdapter(r).rawRow
        /\ cfsErr' = NewAdapter(r).err
        /\ served' = <<r.err = NoErr>>
    /\ rowCount' = 0
    /\ ret' = NoReturn
    /\ nextCalls' = 0
    /\ delivered' = <<>>
    /\ UNCHANGED <<feed, headerRow, columns, columnAnalyzers, row, idx, observed, ddl,
                   args, tableName, steps>>

(***************************************************************************)
(* The bulk-load consumer calling the adapter, in any order                *)
(***************************************************************************)
CallNext ==
    /\ pc = "loading"
    /\ pos < ReadLimit
    /\ \E r \in ReadResults :
        LET n == copyFromSourceNext(rawRow, cfsErr, r)
        IN  /\ pos' = pos + 1
            /\ lastRead' = r
            /\ rawRow' = n.rawRow
            /\ cfsErr' = n.err
            /\ ret' = [NoReturn EXCEPT !.op = "Next", !.ok = n.ok]
            /\ served' = Append(served, r.err = NoErr)
            /\ delivered' = IF n.ok THEN Append(delivered, pos + 1) ELSE delivered
    /\ nextCalls' = nextCalls + 1
    /\ UNCHANGED <<feed, pc, lineNumber, headerRow, columns, columnAnalyzers, row, idx,
                   observed, aerr, ddl, columnNames, args, tableName, steps, rowCount>>

\* A row longer than columns makes Values index past columns: the run panics.
CallValues ==
    /\ pc = "loading"
    /\ LET v == copyFromSourceValues(columns, rawRow, cfsErr)
       IN  /\ columns' = v.columns
           /\ IF v.panic
              THEN pc' = "valuesPanic" /\ UNCHANGED <<cfsErr, ret>>
              ELSE /\ pc' = pc
                   /\ cfsErr' = v.err
                   /\ ret' = [NoReturn EXCEPT !.op = "Values",
                                              !.ok = (v.retErr = NoErr),
                                              !.values = v.values,
                                              !.err = v.retErr,
                                              !.calls = v.calls]
    /\ UNCHANGED <<feed, pos, lastRead, lineNumber, headerRow, columnAnalyzers, row, idx,
                   observed, aerr, ddl, columnNames, rawRow, args, tableName, steps,
                   rowCount, nextCalls, loadLog>>

CallErr ==
    /\ pc = "loading"
    /\ ret' = [NoReturn EXCEPT !.op = "Err", !.ok = (cfsErr = NoErr), !.err = cfsErr]
    /\ UNCHANGED <<feed, pos, lastRead, pc, lineNumber, headerRow, columns,
                   columnAnalyzers, row, idx, observed, aerr, ddl, columnNames, rawRow,
                   cfsErr, args, tableName, steps, rowCount, nextCalls, loadLog>>

\* CopyFrom returns and CopyRows returns what it returned.  It succeeds only
\* after the source has reported its end with no error recorded on the
\* adapter, and then returns the server's row count; it fails with the
\* adapter's error when there is one, and may fail at any point with an error
\* of the connection.  The adapter is gone afterwards.
CopyFromReturn ==
    /\ pc = "loading"
    /\ \E ok \in BOOLEAN, n \in 0..Len(delivered) :
        /\ ok => (ret.op = "Next" /\ ~ret.ok /\ cfsErr = NoErr)
        /\ ~ok => n = 0
        /\ pc' = ExitOnError(ok, "copied", "copyFailed")
        /\ steps' = Succeeded(ok, "copy")
        /\ rowCount' = n
        /\ aerr' = IF ok THEN NoLineError
                   ELSE PlainError(IF cfsErr # NoErr THEN cfsErr ELSE ExecFailure)
    /\ rawRow' = <<>>
    /\ cfsErr' = NoErr
    /\ ret' = NoReturn
    /\ UNCHANGED <<feed, pos, lastRead, lineNumber, headerRow, columns, columnAnalyzers,
                   row, idx, observed, ddl, columnNames, args, tableName, nextCalls, loadLog>>

\* tx.Commit, which may fail.
Commit ==
    /\ pc = "copied"
    /\ \E ok \in BOOLEAN :
        /\ pc' = ExitOnError(ok, "committed", "commitFailed")
        /\ steps' = Succeeded(ok, "commit")
        /\ aerr' = IF ok THEN aerr ELSE PlainError(ExecFailure)
    /\ UNCHANGED <<feed, pos, lastRead, lineNumber, headerRow, columns, columnAnalyzers,
                   row, idx, observed, ddl, columnNames, rawRow, cfsErr, ret, args,
                   tableName, rowCount, nextCalls, loadLog>>

Next ==
    \/ AnalyzeHeader
    \/ AnalyzeRead
    \/ AnalyzeField
    \/ Begin
    \/ DropTable
    \/ CreateTable
    \/ Rewind
    \/ CopyRowsHeader
    \/ CallNext
    \/ CallValues
    \/ CallErr
    \/ CopyFromReturn
    \/ Commit

Spec == Init /\ [][Next]_vars

SpecFile == InitFile /\ [][Next]_vars

\* The command run with each --table flag and CSVFILE argument, on one file.
InitNames ==
    /\ feed = FileSource(WordFile)
    /\ table \in TableFlags
    /\ csvFilename \in FileNames
    /\ InitCommon

SpecNames == InitNames /\ [][Next]_vars

(***************************************************************************)
(* The claims                                                              *)
(***************************************************************************)
SeqRange(vs) == {vs[k] : k \in DOMAIN vs}

NonEmptyTexts(vs) == SeqRange(vs) \ {<<>>}

\* The candidates, by priority position, that decode every non-empty text of vs.
AcceptingCandidates(vs) ==
    {k \in DOMAIN CandidateTypes :
        \A s \in NonEmptyTexts(vs) : AcceptsText(CandidateTypes[k], s)}

SetMin(S) == CHOOSE k \in S : \A j \in S : k <= j

ExpectedType(vs) ==
    IF NonEmptyTexts(vs) # {} /\ AcceptingCandidates(vs) # {}
    THEN CandidateTypes[SetMin(AcceptingCandidates(vs))]
    ELSE TextT

SqlTypeName(t) ==
    CASE t = Int4T    -> <<"i", "n", "t", "e", "g", "e", "r">>
      [] t = Int8T    -> <<"b", "i", "g", "i", "n", "t">>
      [] t = NumericT -> <<"n", "u", "m", "e", "r", "i", "c">>
      [] t = DateT    -> <<"d", "a", "t", "e">>
      [] t = BoolT    -> <<"b", "o", "o", "l">>
      [] t = TextT    -> <<"t", "e", "x", "t">>

\* C1: when AnalyzeColumns has scanned to the end of data, each column's type
\* is the first candidate, in the order Int4, Int8, Numeric, Date, Bool, that
\* decodes every non-empty text the column was given, and text when the column
\* was given no non-empty text or no candidate decodes them all.
C1_FirstAcceptingCandidate ==
    pc = "analyzed" =>
        \A i \in DOMAIN columns :
            /\ columns[i].transcoder.type = ExpectedType(observed[i])
            /\ columns[i].DataType = SqlTypeName(ExpectedType(observed[i]))

\* A column given a text beyond int32 and then one within it resolves to Int8,
\* though Numeric accepts both as well.
C1_Witness ==
    /\ pc = "analyzed"
    /\ \E i \in DOMAIN columns :
        /\ observed[i] = <<TBig, TOne>>
        /\ columns[i].transcoder.type = Int8T

\* C2: a column AnalyzeColumns returns is NotNull only if no empty text was
\* given to its analyzer, wherever in the stream an empty text came.
C2_NotNullOnlyWithoutEmpty ==
    pc = "analyzed" =>
        \A i \in DOMAIN columns :
            columns[i].NotNull => \A k \in DOMAIN observed[i] : observed[i][k] # <<>>

\* One column saw its empty text first, the other last; both are nullable.
C2_Witness ==
    /\ pc = "analyzed"
    /\ Len(columns) = 2
    /\ observed[1] = <<<<>>, TOne>>
    /\ observed[2] = <<TOne, <<>>>>
    /\ ~columns[1].NotNull /\ ~columns[2].NotNull

\* C3 as stated: after a header row and then the end of data, every column is
\* text and nullable.
C3_HeaderOnlyNullable ==
    (pc = "analyzed" /\ pos = 2) =>
        \A i \in DOMAIN columns :
            columns[i].DataType = SqlTypeName(TextT) /\ ~columns[i].NotNull

\* C3 amended: after a header row and then the end of data, every column is
\* text and NotNull, no empty text having been seen.
C3_HeaderOnlyTextNotNull ==
    (pc = "analyzed" /\ pos = 2) =>
        \A i \in DOMAIN columns :
            /\ columns[i].DataType = SqlTypeName(TextT)
            /\ columns[i].transcoder.type = TextT
            /\ columns[i].NotNull

C3_Witness == pc = "analyzed" /\ pos = 2 /\ Len(columns) = 2 /\ lastRead.err = EOF

ScenarioColumnList == <<"i", "d", " ", "i", "n", "t", "e", "g", "e", "r", ",", " ", "n", "a", "m", "e", " ", "t", "e", "x", "t", " ", "n", "o", "t", " ", "n", "u", "l", "l">>

ScenarioDDL ==
    <<"c", "r", "e", "a", "t", "e", " ", "t", "a", "b", "l", "e", " ">> \o TableName
        \o <<" ", "(">> \o ScenarioColumnList \o <<")", ";">>

\* C4: for the header id, name and the rows (1, a), (2, b), (, c): id is
\* integer and nullable, name is text and not null; the statement's column
\* list is "id integer, name text not null"; the load pass delivers exactly
\* three rows, and the first field of the third decodes to null.
C4_ScenarioSchemaAndLoad ==
    feed = FileSource(ScenarioFile) =>
        /\ pc = "analyzed" =>
            /\ Len(columns) = 2
            /\ columns[1].Name = Tid /\ columns[2].Name = Tname
            /\ columns[1].DataType = SqlTypeName(Int4T) /\ ~columns[1].NotNull
            /\ columns[2].DataType = SqlTypeName(TextT) /\ columns[2].NotNull
        /\ ddl # <<>> => ddl = ScenarioDDL
        /\ (pc = "loading" /\ ret.op = "Next") => (ret.ok <=> pos <= 4)
        /\ (pc = "loading" /\ ret.op = "Values" /\ pos >= 2) => ret.ok
        /\ (pc = "loading" /\ ret.op = "Values" /\ pos = 4) => ret.values[1] = NullValue
        /\ pc \notin {"analyzeFailed", "analyzePanic", "copyFailed", "valuesPanic"}

NormalizedHeader == [i \in DOMAIN headerRow |-> NormalizeIdentifier(headerRow[i])]

\* The column list of the statement for the first k header fields, in header order.
RECURSIVE HeaderOrderColumnList(_)
HeaderOrderColumnList(k) ==
    IF k = 0 THEN <<>>
    ELSE HeaderOrderColumnList(k - 1)
         \o (IF k > 1 THEN <<",", " ">> ELSE <<>>)
         \o NormalizedHeader[k] \o <<" ">> \o columns[k].DataType
         \o (IF columns[k].NotNull THEN <<" ", "n", "o", "t", " ", "n", "u", "l", "l">>
                                   ELSE <<>>)

\* C5: once AnalyzeColumns has succeeded, the schema has one column per header
\* field, column i named by the normalized header field i, whatever the data
\* rows were; the statement of CreateTable lists the columns, and CopyRows
\* names them to CopyFrom, in that order.
C5_SchemaFollowsHeader ==
    /\ pc \in {"analyzed", "begun", "beginFailed", "dropChecked", "dropFailed", "created",
               "createFailed", "rewound", "rewindFailed", "loading", "copyFailed",
               "valuesPanic", "copied", "committed", "commitFailed"} =>
            /\ Len(columns) = Len(headerRow)
            /\ \A i \in DOMAIN columns : columns[i].Name = NormalizedHeader[i]
    /\ ddl # <<>> =>
            ddl = <<"c", "r", "e", "a", "t", "e", " ", "t", "a", "b", "l", "e", " ">>
                    \o TableName \o <<" ", "(">> \o HeaderOrderColumnList(Len(headerRow))
                    \o <<")", ";">>
    /\ pc = "loading" => columnNames = NormalizedHeader

C5_Witness ==
    /\ pc = "loading"
    /\ headerRow = <<HId, HFirstName>>
    /\ columnNames = <<<<"i", "d">>, <<"f", "i", "r", "s", "t", "_", "n", "a", "m", "e">>>>
    /\ rawRow # <<>>

\* An error that signals the end of data to AnalyzeColumns.
IsEndOfData(e) == e \in {EOF, WrappedEOF}

\* C6: when the k-th read of AnalyzeColumns fails, no columns are returned and
\* the error wraps the read error and gives line k, except that an end of data
\* on a data-row read (k >= 2) ends the scan successfully; any error of the
\* header read, an end of data included, fails with line 1.
C6_AnalyzeReadErrors ==
    /\ pc = "analyzeFailed" =>
            /\ lastRead.err # NoErr
            /\ aerr = [line |-> pos, cause |-> lastRead.err]
            /\ columns = <<>>
            /\ pos >= 2 => ~IsEndOfData(lastRead.err)
    /\ (pc \in {"scan", "fields", "analyzed", "analyzePanic"} /\ lastRead.err # NoErr) =>
            /\ pc = "analyzed"
            /\ pos >= 2
            /\ IsEndOfData(lastRead.err)
            /\ aerr = [line |-> 0, cause |-> NoErr]
    /\ pc = "analyzed" => IsEndOfData(lastRead.err)

\* The third read, of the second data row, failed.
C6_Witness ==
    /\ pc = "analyzeFailed"
    /\ pos = 3
    /\ lastRead.err = ReadFailure
    /\ aerr.line = 3

\* C7: Next returns true exactly when the read succeeded and then buffers the
\* row read; on io.EOF it returns false and records nothing; on any other
\* error it returns false and records that error, which Err then returns.
C7_NextEndOfDataOrFailure ==
    [][/\ CallNext =>
            /\ ret'.op = "Next"
            /\ ret'.ok <=> (lastRead'.err = NoErr)
            /\ ret'.ok => (rawRow' = lastRead'.fields /\ cfsErr' = cfsErr)
            /\ lastRead'.err = EOF => (cfsErr' = cfsErr /\ rawRow' = rawRow)
            /\ lastRead'.err \notin {NoErr, EOF} =>
                    (cfsErr' = lastRead'.err /\ rawRow' = rawRow)
       /\ CallErr => (ret'.err = cfsErr /\ cfsErr' = cfsErr)]_vars

\* The end of data came after a row was buffered, with no error recorded.
C7_Witness ==
    /\ pc = "loading"
    /\ ret.op = "Next" /\ ~ret.ok
    /\ lastRead.err = EOF
    /\ cfsErr = NoErr
    /\ rawRow # <<>>

\* The first position of raw whose text the column's transcoder does not
\* decode; 0 when there is none.
FirstFailing(cols, raw) ==
    LET bad == {i \in DOMAIN raw \cap DOMAIN cols :
                    raw[i] # <<>> /\ ~AcceptsText(cols[i].transcoder.type, raw[i])}
    IN  IF bad = {} THEN 0 ELSE SetMin(bad)

\* What column i holds after a successful decode of the field s.
DecodedField(cols, i, s) ==
    IF s = <<>> THEN [status |-> "null", val |-> <<>>]
    ELSE DecodedValue(cols[i].transcoder.type, s)

\* C8: Values decodes the fields in column order, each with its column's
\* transcoder; at the first field that fails it stops, no later field being
\* decoded, returns nil values and that error, and records the error.
C8_ValuesStopsAtFirstFailure ==
    [][(CallValues /\ pc' = "loading") =>
            LET j == FirstFailing(columns, rawRow)
            IN  /\ ret'.op = "Values"
                /\ ~ret'.ok <=> j # 0
                /\ j # 0 =>
                    /\ ret'.values = <<>>
                    /\ ret'.err = [kind |-> "decode", col |-> j, text |-> rawRow[j]]
                    /\ cfsErr' = ret'.err
                    /\ ret'.calls = j
                    /\ \A i \in DOMAIN columns : i >= j => columns'[i] = columns[i]
                    /\ \A i \in 1..(j - 1) :
                        columns'[i].transcoder.value = DecodedField(columns, i, rawRow[i])]_vars

\* The first of two fields failed: the second was not decoded.
C8_Witness ==
    /\ pc = "loading"
    /\ ret.op = "Values" /\ ~ret.ok
    /\ Len(rawRow) = 2 /\ Len(columns) = 2
    /\ ret.calls = 1
    /\ cfsErr = ret.err

\* C9: for a buffered row with as many fields as there are columns, the values
\* a successful Values returns hold null at each position whose field is empty
\* and elsewhere the field decoded by the column's transcoder.
C9_EmptyFieldIsNull ==
    (pc = "loading" /\ ret.op = "Values" /\ ret.ok /\ Len(rawRow) = Len(columns)) =>
        /\ Len(ret.values) = Len(columns)
        /\ \A i \in DOMAIN columns : ret.values[i] = DecodedField(columns, i, rawRow[i])

C9_Witness ==
    /\ pc = "loading"
    /\ ret.op = "Values" /\ ret.ok
    /\ Len(rawRow) = 2 /\ Len(columns) = 2
    /\ rawRow[1] # <<>> /\ rawRow[2] = <<>>
    /\ columns[2].transcoder.type = TextT
    /\ ret.values[2].status = "null" /\ ret.values[1].status = "present"

\* C10: a successful Values has decoded as many fields as there are columns,
\* and Values on a buffered row with fewer fields than columns returns an error.
C10_ShortRowIsAnError ==
    (pc = "loading" /\ ret.op = "Values" /\ rawRow # <<>>) =>
        /\ ret.ok => ret.calls = Len(columns)
        /\ Len(rawRow) < Len(columns) => ~ret.ok

\* The steps of a run that succeeds, in the order of Run.
PipelineSteps == <<"analyze", "begin", "create", "rewind", "copy", "commit">>

\* The pcs at which the run has ended: by a failure, a panic, or the commit.
EndPcs ==
    {"analyzeFailed", "analyzePanic", "beginFailed", "dropFailed", "createFailed",
     "rewindFailed", "copyFailed", "valuesPanic", "commitFailed", "committed"}

\* The phase a pc belongs to: 1 inference, 2 schema ready (the table being
\* created), 3 loading (the rewind and the row copy), 4 done.
PhaseOf(p) ==
    CASE p \in {"start", "scan", "fields", "analyzeFailed", "analyzePanic"} -> 1
      [] p \in {"analyzed", "begun", "beginFailed", "dropChecked", "dropFailed",
                "createFailed", "created"} -> 2
      [] p \in {"rewindFailed", "rewound", "loading", "copyFailed", "valuesPanic",
                "copied", "commitFailed"} -> 3
      [] p = "committed" -> 4

\* How many of the steps must have succeeded for the run to be at a pc.
StepsBefore(p) ==
    CASE p \in {"start", "scan", "fields", "analyzeFailed", "analyzePanic"} -> 0
      [] p \in {"analyzed", "beginFailed"} -> 1
      [] p \in {"begun", "dropChecked", "dropFailed", "createFailed"} -> 2
      [] p \in {"created", "rewindFailed"} -> 3
      [] p \in {"rewound", "loading", "copyFailed", "valuesPanic"} -> 4
      [] p \in {"copied", "commitFailed"} -> 5
      [] p = "committed" -> 6

\* C11: the run goes through analyze, create table, rewind and copy, commit in
\* that order and never back to an earlier phase; the steps that have
\* succeeded are at every point exactly the ones before the run's position, so
\* the commit is reached only after analysis, table creation, rewind and row
\* copy all succeeded; and once a step has failed no further step is taken.
C11_PipelineInOrder ==
    /\ [](/\ steps = SubSeq(PipelineSteps, 1, StepsBefore(pc))
          /\ pc = "committed" => steps = PipelineSteps)
    /\ [][/\ pc \notin EndPcs
          /\ PhaseOf(pc') >= PhaseOf(pc)
          /\ StepsBefore(pc') >= StepsBefore(pc)]_vars

\* A run over a file with data rows reached the commit.
C11_Witness ==
    /\ pc = "committed"
    /\ steps = PipelineSteps
    /\ ddl # <<>>
    /\ nextCalls >= 2
    /\ aerr = NoLineError

\* The characters a normalized identifier may contain.
LowerCaseWordChars == Digits \cup Range(LowerLetters) \cup {"_"}

\* The positions of s that leave a character in the normalized text: the word
\* characters, and the first character of each run of other characters.
KeptPositions(s) ==
    {i \in DOMAIN s : IsWordChar(s[i]) \/ i = 1 \/ IsWordChar(s[i - 1])}

NthKept(s, k) ==
    CHOOSE i \in KeptPositions(s) : Cardinality({j \in KeptPositions(s) : j <= i}) = k

\* s with each maximal run of non-word characters as one underscore, lower-cased.
RunsAsUnderscore(s) ==
    [k \in 1..Cardinality(KeptPositions(s)) |->
        IF IsWordChar(s[NthKept(s, k)]) THEN ToLowerChar(s[NthKept(s, k)]) ELSE "_"]

\* The pcs at which Run has computed tableName.
NamedPcs ==
    {"begun", "dropChecked", "dropFailed", "created", "createFailed", "rewound",
     "rewindFailed", "loading", "copyFailed", "valuesPanic", "copied", "committed",
     "commitFailed"}

\* C12: the table name Run uses is the --table flag unchanged when it is
\* given, else "stdin" when the file argument is "-", else the file argument
\* with each maximal run of non-word characters as one underscore and
\* lower-cased (foo.csv gives foo_csv); what NormalizeIdentifier returns holds
\* only lower-case word characters, and normalizing it again changes nothing.
C12_TableNameAndNormalization ==
    /\ pc \in NamedPcs =>
        /\ table # <<>> => tableName = table
        /\ (table = <<>> /\ csvFilename = <<"-">>) => tableName = <<"s", "t", "d", "i", "n">>
        /\ (table = <<>> /\ csvFilename # <<"-">>) => tableName = RunsAsUnderscore(csvFilename)
        /\ (table = <<>> /\ csvFilename = <<"f", "o", "o", ".", "c", "s", "v">>) => tableName = <<"f", "o", "o", "_", "c", "s", "v">>
        /\ ddl # <<>> => SubSeq(ddl, 14, 13 + Len(tableName)) = tableName
    /\ \A x \in {csvFilename, table} \cup SeqRange(headerRow) :
        /\ SeqRange(NormalizeIdentifier(x)) \subseteq LowerCaseWordChars
        /\ NormalizeIdentifier(NormalizeIdentifier(x)) = NormalizeIdentifier(x)

\* The table was created under the name computed from a file name with upper
\* case and runs of several non-word characters.
C12_Witness ==
    /\ pc = "created"
    /\ table = <<>>
    /\ csvFilename = <<"M", "y", " ", "D", "a", "t", "a", "-", "-", "2", ".", "C", "S", "V">>
    /\ tableName = <<"m", "y", "_", "d", "a", "t", "a", "_", "2", "_", "c", "s", "v">>
    /\ NormalizeIdentifier(tableName) = tableName

TypesOf(ts) == [k \in DOMAIN ts |-> ts[k].type]

\* The elements of the sequence b that are in the set S, in the order of b.
RECURSIVE KeepIn(_, _)
KeepIn(b, S) ==
    IF b = <<>> THEN <<>>
    ELSE (IF Head(b) \in S THEN <<Head(b)>> ELSE <<>>) \o KeepIn(Tail(b), S)

\* a is b with some elements left out, the order kept (b has no repetitions).
IsSubList(a, b) == a = KeepIn(b, SeqRange(a))

\* The analyzer ca after the values of vs, in order.
RECURSIVE FeedAll(_, _)
FeedAll(ca, vs) == IF vs = <<>> THEN ca ELSE FeedAll(analyzeValue(ca, Head(vs)), Tail(vs))

\* C13: an analyzeValue call leaves the surviving candidates an
\* order-preserving sub-list of what they were; every surviving candidate
\* decodes every non-empty value the column has been given, so none that a
\* value eliminated is back; an empty value adds one to the null counter and
\* changes nothing else; and a second pass over the same values, by fresh
\* analyzers or by the same ones, resolves to the same schema.
C13_MonotonicNarrowing ==
    /\ [][(AnalyzeField /\ pc' # "analyzePanic") =>
            LET before == columnAnalyzers[idx]
                after  == columnAnalyzers'[idx]
            IN  /\ IsSubList(TypesOf(after.acceptableTypes), TypesOf(before.acceptableTypes))
                /\ IsSubList(TypesOf(after.acceptableTypes), CandidateTypes)
                /\ row[idx] = <<>> =>
                    /\ after.nullsFound = before.nullsFound + 1
                    /\ after.acceptableTypes = before.acceptableTypes
                    /\ after.nonNullsFound = before.nonNullsFound]_vars
    /\ [](pc \in {"scan", "fields", "analyzed", "analyzePanic"} =>
            \A i \in DOMAIN columnAnalyzers :
                /\ \A k \in DOMAIN observed[i] : \A c \in DOMAIN columnAnalyzers[i].acceptableTypes :
                        observed[i][k] # <<>> =>
                            AcceptsText(columnAnalyzers[i].acceptableTypes[c].type, observed[i][k])
                /\ result(FeedAll(newColumnAnalyzer, observed[i])) = result(columnAnalyzers[i])
                /\ result(FeedAll(columnAnalyzers[i], observed[i])) = result(columnAnalyzers[i]))
    /\ [](pc = "analyzed" =>
            columns = ResolvedColumns(NamedColumns(headerRow),
                                      [i \in DOMAIN headerRow |->
                                            FeedAll(newColumnAnalyzer, observed[i])]))

\* A column was given a decimal, which eliminated Int4, Int8, Date and Bool,
\* and then a value every candidate but Date accepts: Numeric alone is left.
C13_Witness ==
    /\ pc = "scan"
    /\ \E i \in DOMAIN columnAnalyzers :
        /\ observed[i] = <<TDecimal, TOne>>
        /\ TypesOf(columnAnalyzers[i].acceptableTypes) = <<NumericT>>
        /\ columnAnalyzers[i].nonNullsFound = 2

\* The numbers of the set S as a sequence, in increasing order.
Ascending(S) ==
    CHOOSE q \in [1..Cardinality(S) -> S] : \A i, j \in 1..Cardinality(S) : i < j => q[i] < q[j]

\* C14: CopyRows makes exactly one read, the header's, and drops the row read,
\* before the adapter is in the consumer's hands, so that nothing is buffered
\* before the first Next; the rows Next then buffers are the rows the source
\* returns from its second read on, each once and in the source's order; when
\* the header read fails CopyRows returns 0 and an error of line 1, CopyFrom
\* never having been called.
C14_HeaderDroppedRowsInOrder ==
    /\ [](pc = "loading" =>
            /\ Len(served) = pos
            /\ served[1]
            /\ nextCalls = pos - 1
            /\ delivered = Ascending({k \in 2..pos : served[k]})
            /\ delivered = <<>> => rawRow = <<>>)
    /\ [](pc = "copyFailed" /\ aerr.line = 1 =>
            /\ rowCount = 0
            /\ aerr.cause = lastRead.err /\ lastRead.err # NoErr
            /\ pos = 1 /\ nextCalls = 0
            /\ columnNames = <<>>)
    /\ [][CopyRowsHeader =>
            /\ pos = 0 /\ pos' = 1
            /\ (pc' = "loading") <=> (lastRead'.err = NoErr)
            /\ (pc' = "copyFailed") <=> (lastRead'.err # NoErr)
            /\ rawRow' = <<>> /\ delivered' = <<>>]_vars
    /\ [][CallNext =>
            /\ pos' = pos + 1
            /\ ret'.ok => (rawRow' = lastRead'.fields /\ delivered' = Append(delivered, pos'))
            /\ ~ret'.ok => (rawRow' = rawRow /\ delivered' = delivered)]_vars

\* The header was dropped, the source's second and third rows were buffered in
\* turn, and the fourth read reported the end.
C14_Witness ==
    /\ pc = "loading"
    /\ served = <<TRUE, TRUE, TRUE, FALSE>>
    /\ delivered = <<2, 3>>
    /\ lastRead.err = EOF
    /\ rawRow # <<>>

\* C15: the adapter reads the source only in Next, once per call, whether the
\* read succeeds or fails, and never in Values or Err: the reads the adapter
\* has made (all reads of the pass but the header's) are as many as the calls
\* of Next.  The adapter buffers one row, the last one a read returned: a
\* successful Next replaces it by the row just read, a failed Next leaves it,
\* and Values and Err leave it.
C15_OneReadPerNext ==
    /\ [](pc \in {"loading", "valuesPanic"} =>
            /\ pos - 1 = nextCalls
            /\ Len(served) - 1 = nextCalls
            /\ Len(delivered) <= nextCalls)
    /\ [][CallNext =>
            /\ pos' = pos + 1 /\ nextCalls' = nextCalls + 1
            /\ Len(served') = Len(served) + 1
            /\ rawRow' = IF lastRead'.err = NoErr THEN lastRead'.fields ELSE rawRow]_vars
    /\ [][(CallValues \/ CallErr) =>
            /\ pos' = pos /\ nextCalls' = nextCalls
            /\ served' = served /\ lastRead' = lastRead
            /\ rawRow' = rawRow]_vars

\* Three calls of Next made three reads; the last one failed and the row of
\* the one before is still buffered, Values having been called since.
C15_Witness ==
    /\ pc = "loading"
    /\ nextCalls = 3 /\ pos = 4
    /\ served = <<TRUE, TRUE, TRUE, FALSE>>
    /\ lastRead.err = ReadFailure
    /\ rawRow # <<>>
    /\ ret.op = "Values"

\* C16: an error the adapter has recorded stays: whatever Next, Values or Err
\* call follows, a successful one or a clean end of data included, cfs.err is
\* still not nil afterwards; Err returns cfs.err and changes nothing of the
\* adapter, the columns or the source.
C16_RecordedErrorSticks ==
    /\ [][(CallNext \/ CallValues \/ CallErr) => (cfsErr # NoErr => cfsErr' # NoErr)]_vars
    /\ [][(CallNext /\ lastRead'.err \in {NoErr, EOF}) => cfsErr' = cfsErr]_vars
    /\ [][(CallValues /\ pc' = "loading" /\ ret'.ok) => cfsErr' = cfsErr]_vars
    /\ [][CallErr =>
            /\ ret'.err = cfsErr
            /\ UNCHANGED <<rawRow, cfsErr, columns, pos, lastRead, pc, served, delivered>>]_vars

\* The second read failed and was recorded; the third returned a row, whose
\* Values succeeded; the fourth reported a clean end; Err still returns the
\* failure of the second.
C16_Witness ==
    /\ pc = "loading"
    /\ served = <<TRUE, FALSE, TRUE, FALSE>>
    /\ lastRead.err = EOF
    /\ \E i \in DOMAIN columns : columns[i].transcoder.value.status = "present"
    /\ ret.op = "Err" /\ ret.err = ReadFailure
    /\ cfsErr = ReadFailure

\* How many of the values of vs are empty.
EmptyCount(vs) == Cardinality({k \in DOMAIN vs : vs[k] = <<>>})

\* C17: a value fed to the analyzer of column i changes that analyzer only;
\* reading a row changes none; only the positions a row has are fed, so a row
\* shorter than the header leaves the analyzers of the missing positions as
\* they were and counts no null for them.  Each analyzer is at every point
\* what a fresh analyzer becomes on the values of its own position alone, and
\* each column's resolved type and nullability are the result of that.
C17_ColumnsIndependent ==
    /\ [][(AnalyzeField /\ pc' # "analyzePanic") =>
            /\ idx <= Len(row)
            /\ observed'[idx] = Append(observed[idx], row[idx])
            /\ \A j \in DOMAIN columnAnalyzers :
                j # idx => (columnAnalyzers'[j] = columnAnalyzers[j] /\ observed'[j] = observed[j])]_vars
    /\ [][AnalyzeRead => (columnAnalyzers' = columnAnalyzers /\ observed' = observed)]_vars
    /\ [](pc \in {"scan", "fields", "analyzed", "analyzePanic"} =>
            \A i \in DOMAIN columnAnalyzers :
                /\ columnAnalyzers[i] = FeedAll(newColumnAnalyzer, observed[i])
                /\ columnAnalyzers[i].nullsFound = EmptyCount(observed[i])
                /\ columnAnalyzers[i].nonNullsFound = Len(observed[i]) - EmptyCount(observed[i]))
    /\ [](pc = "analyzed" =>
            \A i \in DOMAIN columns :
                /\ columns[i].DataType = result(FeedAll(newColumnAnalyzer, observed[i])).dataType
                /\ columns[i].NotNull = (EmptyCount(observed[i]) = 0))

\* After a row of two fields came a row of one: the second column's analyzer
\* has the first row's value only, and has counted no null.
C17_Witness ==
    /\ pc = "scan"
    /\ Len(columnAnalyzers) = 2
    /\ row = <<TOne>>
    /\ observed = <<<<TOne, TOne>>, <<TWord>>>>
    /\ columnAnalyzers[2].nullsFound = 0
    /\ columnAnalyzers[2].acceptableTypes = <<>>
    /\ TypesOf(columnAnalyzers[1].acceptableTypes) = <<Int4T, Int8T, NumericT, BoolT>>

\* C18: a failed read that AnalyzeColumns takes for the end of data, ending
\* its scan with success, is taken by Next for the end of data as well: Next
\* returns false and records nothing; and a failed read that AnalyzeColumns
\* takes for a failure is recorded by Next as a failure.
C18_SameClassification ==
    [][(CallNext /\ lastRead'.err # NoErr) =>
            /\ ~ret'.ok
            /\ EndsScan(lastRead'.err) => cfsErr' = cfsErr
            /\ ~EndsScan(lastRead'.err) => cfsErr' = lastRead'.err]_vars

\* C19: AnalyzeColumns and Values address only positions the header has: the
\* loop of AnalyzeColumns is never at a position past the analyzers, Values
\* never decodes more fields than there are columns, and neither ends in an
\* index out of range.
C19_NoOutOfRangeAccess ==
    /\ pc = "fields" => idx <= Len(columnAnalyzers)
    /\ (pc = "loading" /\ ret.op = "Values") => ret.calls <= Len(columns)
    /\ pc \notin {"analyzePanic", "valuesPanic"}

====
